---- MODULE Spec2Model ----
(***************************************************************************)
(* Semaphores, locks with priority donation and Mesa-style condition       *)
(* variables of threads/synch.c, on a uniprocessor whose only atomicity    *)
(* device is disabling interrupts.  One action is one stretch of code a    *)
(* thread runs with interrupts disabled (or, in cond_wait/cond_signal, one *)
(* list operation done with interrupts enabled under the monitor lock);    *)
(* between two actions any thread that is not blocked may be scheduled,    *)
(* which covers timer preemption and every scheduling policy.              *)
(***************************************************************************)
EXTENDS Integers, Sequences, FiniteSets, TLC

NThreads == 3
NLocks == 2
MaxPriority == 3
MaxInit == 1
MaxOps == 2

NULL == 0

\* enum intr_level
INTR_OFF == "INTR_OFF"
INTR_ON == "INTR_ON"

Priorities == 1..MaxPriority

\* The semaphores of the model: the one inside each lock, one free-standing
\* semaphore, and the private semaphore a thread creates in cond_wait.
LockSema(l) == <<"lock", l>>
PrivSema(t) == <<"waiter", t>>
PlainSema == <<"sema", 0>>

VARIABLES
  value,              \* sema->value, per semaphore
  waiters,            \* sema->waiters, per semaphore: a list of threads
  holder,             \* lock->holder, per lock
  priority,           \* thread->priority (effective priority)
  original_priority,  \* thread->original_priority (base priority)
  donations,          \* thread->donations: a list of threads
  waiting_lock,       \* thread->waiting_lock
  cond_waiters,       \* cond->waiters: a list of semaphore_elem, named by owner
  blocked,            \* thread status is THREAD_BLOCKED
  pc,                 \* where each thread stands
  arg,                \* the lock argument of the call a thread is inside
  max_elem,           \* cond_signal's local max_elem, once removed
  calls,              \* number of calls a scripted thread has started
  init_value,         \* the value the free-standing semaphore was created with
  downs,              \* completed successful decrements of the free semaphore
  ups,                \* completed sema_up calls on the free semaphore
  owners,             \* per lock: threads whose acquire returned, not yet released
  last,               \* the step taken last
  intr_level,         \* the interrupt level each thread runs at
  old_level,          \* the old_level locals of the calls a thread is inside
  entry_level,        \* the interrupt level a thread's latest call was made at
  intr_seen           \* the levels the step taken last changed data and came
                      \* back from an inner call at

vars == <<value, waiters, holder, priority, original_priority, donations,
          waiting_lock, cond_waiters, blocked, pc, arg, max_elem, calls,
          init_value, downs, ups, owners, last, intr_level, old_level,
          entry_level, intr_seen>>

intr_vars == <<intr_level, old_level, entry_level, intr_seen>>

\* The threads and locks that exist, fixed by the initial state.
Threads == DOMAIN pc
Locks == DOMAIN holder
Semas == DOMAIN value

\* Names a thread or a lock can have in any of the initial states below.
ThreadIds == 1..(NThreads + 1)
LockIds == 1..(NLocks + 1)

\* The lock every condition-variable operation is called with.
CondLock == CHOOSE l \in Locks : \A m \in Locks : l <= m

Max(a, b) == IF a >= b THEN a ELSE b

RemoveAt(list, i) == SubSeq(list, 1, i - 1) \o SubSeq(list, i + 1, Len(list))

Remove(list, x) == SelectSeq(list, LAMBDA y : y # x)

Range(list) == {list[i] : i \in 1..Len(list)}

\* ------------------------------------------------------------------------
\* The list utility and the thread layer (lib/kernel/list.c, threads/thread.c)
\* are used by synch.c but are not part of it; they follow the design text.

\* priority_less_func: orders two threads by effective priority.
priority_less_func(a, b) == priority[a] < priority[b]

\* list_max: the first element that no later element exceeds under the
\* comparator, given as the set of pairs <<a, b>> for which it answers true.
list_max(list, less) ==
  LET RECURSIVE scan(_, _)
      scan(i, max) ==
        IF i > Len(list) THEN max
        ELSE scan(i + 1, IF <<max, list[i]>> \in less THEN list[i] ELSE max)
  IN  scan(2, list[1])

\* list_insert_ordered on a donations list: the list is kept in descending
\* priority order, a new element going after the elements of equal priority.
list_insert_ordered(list, elem, pri) ==
  LET lower == {i \in 1..Len(list) : pri[list[i]] < pri[elem]}
      at == IF lower = {} THEN Len(list) + 1
            ELSE CHOOSE i \in lower : \A j \in lower : i <= j
  IN  SubSeq(list, 1, at - 1) \o <<elem>> \o SubSeq(list, at, Len(list))

\* thread_try_donate_priority: walks waiting_lock -> holder from the current
\* thread and raises each holder to at least the current thread's priority.
\* A walk of as many links as there are threads covers every chain.
RECURSIVE donate_walk(_, _, _, _, _)
donate_walk(cur, p, wl, pri, depth) ==
  IF depth = 0 \/ wl[cur] = NULL THEN pri
  ELSE IF holder[wl[cur]] = NULL THEN pri
  ELSE LET h == holder[wl[cur]]
       IN  donate_walk(h, p, wl, [pri EXCEPT ![h] = Max(pri[h], p)], depth - 1)

thread_try_donate_priority(t, wl, pri) == donate_walk(t, pri[t], wl, pri, Cardinality(DOMAIN pri))

\* ------------------------------------------------------------------------
\* threads/synch.c

Event(op, t, obj, woke) == [op |-> op, th |-> t, obj |-> obj, woke |-> woke]

TypeOK ==
  /\ value \in [Semas -> Int]
  /\ \A s \in Semas : Range(waiters[s]) \subseteq Threads
  /\ holder \in [Locks -> Threads \cup {NULL}]
  /\ priority \in [Threads -> Int]
  /\ original_priority \in [Threads -> Priorities]
  /\ \A t \in Threads : Range(donations[t]) \subseteq Threads
  /\ waiting_lock \in [Threads -> Locks \cup {NULL}]
  /\ Range(cond_waiters) \subseteq Threads
  /\ blocked \in [Threads -> BOOLEAN]

\* sema_init / lock_init / cond_init, for threads T created with their base
\* priorities and no donations, locks L, and the free-standing semaphore
\* created with a value in V.
InitWith(T, L, V) ==
  /\ init_value \in V
  /\ value = [s \in {LockSema(l) : l \in L} \cup {PrivSema(t) : t \in T} \cup {PlainSema}
               |-> IF s = PlainSema THEN init_value
                   ELSE IF s[1] = "lock" THEN 1 ELSE 0]
  /\ waiters = [s \in DOMAIN value |-> <<>>]
  /\ holder = [l \in L |-> NULL]
  /\ original_priority \in [T -> Priorities]
  /\ priority = original_priority
  /\ donations = [t \in T |-> <<>>]
  /\ waiting_lock = [t \in T |-> NULL]
  /\ cond_waiters = <<>>
  /\ blocked = [t \in T |-> FALSE]
  /\ pc = [t \in T |-> "idle"]
  /\ arg = [t \in T |-> NULL]
  /\ max_elem = [t \in T |-> NULL]
  /\ calls = [t \in T |-> 0]
  /\ downs = 0
  /\ ups = 0
  /\ owners = [l \in L |-> {}]
  /\ last = Event("init", NULL, NULL, NULL)
  /\ intr_level = [t \in T |-> INTR_ON]
  /\ old_level = [t \in T |-> <<>>]
  /\ entry_level = [t \in T |-> INTR_ON]
  /\ intr_seen = [at |-> {}, inner |-> {}]

\* A thread exists and can be given the processor.
Runnable(t) == t \in Threads /\ ~blocked[t]

\* A loop test that lets a thread past a semaphore at zero.
sema_is_negative(s) == value[s] < 0

\* sema_down's loop test.
sema_is_zero(s) == value[s] = 0

\* A probe test that is off by one.
sema_is_not_negative(s) == value[s] >= 0

\* sema_try_down's test.
sema_is_positive(s) == value[s] > 0

\* The loop of sema_down from its test on, for thread t with the
\* waiting_lock values wl: either donate, queue and block, or decrement.
sema_down(t, s, wl, waitpc, donepc) ==
  IF sema_is_zero(s)
  THEN /\ priority' = thread_try_donate_priority(t, wl, priority)
       /\ waiters' = [waiters EXCEPT ![s] = Append(@, t)]
       /\ blocked' = [blocked EXCEPT ![t] = TRUE]
       /\ pc' = [pc EXCEPT ![t] = waitpc]
       /\ UNCHANGED value
  ELSE /\ value' = [value EXCEPT ![s] = @ - 1]
       /\ pc' = [pc EXCEPT ![t] = donepc]
       /\ UNCHANGED <<priority, waiters, blocked>>

\* The waiter that has waited longest.
first_waiter(list) == Head(list)

\* The waiter sema_up takes off the list.
highest_priority_waiter(list) ==
  list_max(list, {p \in Range(list) \X Range(list) : priority_less_func(p[1], p[2])})

\* A sema_up that increments without waking anybody.
sema_up_no_wake(s) ==
  /\ value' = [value EXCEPT ![s] = @ + 1]
  /\ UNCHANGED <<waiters, blocked>>

\* sema_up up to intr_set_level: wake the highest-priority waiter, if any,
\* and increment.  The yield that may follow changes no data.
sema_up(s) ==
  /\ IF waiters[s] # <<>>
     THEN LET w == highest_priority_waiter(waiters[s])
          IN  /\ waiters' = [waiters EXCEPT ![s] = Remove(@, w)]
              /\ blocked' = [blocked EXCEPT ![w] = FALSE]
     ELSE UNCHANGED <<waiters, blocked>>
  /\ value' = [value EXCEPT ![s] = @ + 1]

Woken(s) == IF waiters[s] # <<>> THEN highest_priority_waiter(waiters[s]) ELSE NULL

\* ---- the free-standing semaphore
\* Each call is defined once without the callers' bookkeeping (the Call
\* operators) and used by the free-running and the scripted workloads.

SemaDownCall(t) ==
  /\ Runnable(t) /\ pc[t] = "idle"
  /\ sema_down(t, PlainSema, waiting_lock, "sd_wait", "idle")
  /\ downs' = IF sema_is_zero(PlainSema) THEN downs ELSE downs + 1
  /\ last' = Event(IF sema_is_zero(PlainSema) THEN "sema_down_block" ELSE "sema_down",
                   t, NULL, NULL)
  /\ UNCHANGED <<holder, original_priority, donations, waiting_lock, cond_waiters,
                 arg, max_elem, init_value, ups, owners>>

SemaDown(t) == SemaDownCall(t) /\ UNCHANGED calls

\* A woken thread is scheduled again inside sema_down's loop.
SemaDownResume(t) ==
  /\ Runnable(t) /\ pc[t] = "sd_wait"
  /\ sema_down(t, PlainSema, waiting_lock, "sd_wait", "idle")
  /\ downs' = IF sema_is_zero(PlainSema) THEN downs ELSE downs + 1
  /\ last' = Event(IF sema_is_zero(PlainSema) THEN "sema_down_block" ELSE "sema_down",
                   t, NULL, NULL)
  /\ UNCHANGED <<holder, original_priority, donations, waiting_lock, cond_waiters,
                 arg, max_elem, calls, init_value, ups, owners>>

SemaTryDown(t) ==
  /\ Runnable(t) /\ pc[t] = "idle"
  /\ IF sema_is_positive(PlainSema)
     THEN /\ value' = [value EXCEPT ![PlainSema] = @ - 1]
          /\ downs' = downs + 1
          /\ last' = Event("sema_try_down_true", t, NULL, NULL)
          /\ UNCHANGED priority
     ELSE /\ priority' = thread_try_donate_priority(t, waiting_lock, priority)
          /\ last' = Event("sema_try_down_false", t, NULL, NULL)
          /\ UNCHANGED <<value, downs>>
  /\ UNCHANGED <<waiters, holder, original_priority, donations, waiting_lock,
                 cond_waiters, blocked, pc, arg, max_elem, calls, init_value, ups,
                 owners>>

SemaUpCall(t) ==
  /\ Runnable(t) /\ pc[t] = "idle"
  /\ ups < MaxOps
  /\ sema_up(PlainSema)
  /\ ups' = ups + 1
  /\ last' = Event("sema_up", t, NULL, Woken(PlainSema))
  /\ UNCHANGED <<holder, priority, original_priority, donations, waiting_lock,
                 cond_waiters, pc, arg, max_elem, init_value, downs, owners>>

SemaUp(t) == SemaUpCall(t) /\ UNCHANGED calls

SemaNext ==
  /\ \E t \in ThreadIds :
       \/ SemaDown(t)
       \/ SemaDownResume(t)
       \/ SemaTryDown(t)
       \/ SemaUp(t)
  /\ UNCHANGED intr_vars

InitSema == InitWith(1..NThreads, {}, 0..MaxInit)

SpecSema == InitSema /\ [][SemaNext]_vars

\* ---- sema_up called from an external interrupt handler, where
\* thread_current () is the thread the interrupt arrived in: a thread that
\* runs with interrupts on, outside the calls above.

\* sema_up's test before thread_yield, for the current thread t.
sema_up_yields(t, s) == Woken(s) # NULL /\ priority[t] < priority[Woken(s)]

SemaUpInterrupt(t) ==
  /\ Runnable(t) /\ pc[t] = "idle"
  /\ ups < MaxOps
  /\ sema_up(PlainSema)
  /\ ups' = ups + 1
  /\ last' = Event(IF sema_up_yields(t, PlainSema) THEN "sema_up_intr_yield"
                   ELSE "sema_up_intr", t, NULL, Woken(PlainSema))
  /\ UNCHANGED <<holder, priority, original_priority, donations, waiting_lock,
                 cond_waiters, pc, arg, max_elem, calls, init_value, downs, owners>>

InterruptNext ==
  /\ \E t \in ThreadIds :
       \/ SemaDown(t)
       \/ SemaDownResume(t)
       \/ SemaTryDown(t)
       \/ SemaUp(t)
       \/ SemaUpInterrupt(t)
  /\ UNCHANGED intr_vars

SpecInterrupt == InitSema /\ [][InterruptNext]_vars

\* ---- locks

\* lock_held_by_current_thread, for the thread t that runs.
lock_held_by_current_thread(t, l) == holder[l] = t

\* lock_acquire from intr_disable on, and again from sema_down's loop test
\* each time the thread is woken: the first pass marks the wait and joins the
\* holder's donations, a resumption re-enters sema_down's loop only.  ret
\* names the call that returns when the lock is taken.
lock_acquire(t, l, first, waitpc, ret) ==
  LET contended == first /\ holder[l] # NULL
      wl == IF contended THEN [waiting_lock EXCEPT ![t] = l] ELSE waiting_lock
  IN  /\ donations' = IF contended
                      THEN [donations EXCEPT ![holder[l]] =
                              list_insert_ordered(@, t, priority)]
                      ELSE donations
      /\ sema_down(t, LockSema(l), wl, waitpc, "idle")
      /\ IF sema_is_zero(LockSema(l))
         THEN /\ waiting_lock' = wl
              /\ arg' = [arg EXCEPT ![t] = l]
              /\ last' = Event("lock_acquire_block", t, l, NULL)
              /\ UNCHANGED <<holder, owners>>
         ELSE /\ waiting_lock' = [wl EXCEPT ![t] = NULL]
              /\ holder' = [holder EXCEPT ![l] = t]
              /\ arg' = [arg EXCEPT ![t] = NULL]
              /\ owners' = [owners EXCEPT ![l] = @ \cup {t}]
              /\ last' = Event(ret, t, l, NULL)

LockAcquireCall(t, l) ==
  /\ Runnable(t) /\ pc[t] = "idle"
  /\ l \in Locks
  /\ ~lock_held_by_current_thread(t, l)
  /\ lock_acquire(t, l, TRUE, "la_wait", "lock_acquire")
  /\ UNCHANGED <<original_priority, cond_waiters, max_elem, init_value, downs, ups>>

LockAcquire(t, l) == LockAcquireCall(t, l) /\ UNCHANGED calls

LockAcquireResume(t) ==
  /\ Runnable(t) /\ pc[t] = "la_wait"
  /\ lock_acquire(t, arg[t], FALSE, "la_wait", "lock_acquire")
  /\ UNCHANGED <<original_priority, cond_waiters, max_elem, calls, init_value,
                 downs, ups>>

LockTryAcquire(t, l) ==
  /\ Runnable(t) /\ pc[t] = "idle"
  /\ l \in Locks
  /\ ~lock_held_by_current_thread(t, l)
  /\ IF sema_is_positive(LockSema(l))
     THEN /\ value' = [value EXCEPT ![LockSema(l)] = @ - 1]
          /\ waiting_lock' = [waiting_lock EXCEPT ![t] = NULL]
          /\ holder' = [holder EXCEPT ![l] = t]
          /\ owners' = [owners EXCEPT ![l] = @ \cup {t}]
          /\ last' = Event("lock_try_acquire_true", t, l, NULL)
          /\ UNCHANGED priority
     ELSE /\ priority' = thread_try_donate_priority(t, waiting_lock, priority)
          /\ last' = Event("lock_try_acquire_false", t, l, NULL)
          /\ UNCHANGED <<value, waiting_lock, holder, owners>>
  /\ UNCHANGED <<waiters, original_priority, donations, cond_waiters, blocked, pc,
                 arg, max_elem, calls, init_value, downs, ups>>

\* A release that drops every donation.
purge_all_donations(list, l) == <<>>

\* The donations the releasing thread keeps: those not waiting on lock l.
purge_donations(list, l) == SelectSeq(list, LAMBDA d : waiting_lock[d] # l)

\* A release that only ever raises the priority.
recompute_priority_no_reset(t, list) ==
  IF list # <<>> /\ priority[t] < priority[Head(list)]
  THEN priority[Head(list)]
  ELSE priority[t]

\* The priority lock_release leaves the releasing thread with.
recompute_priority(t, list) ==
  IF list # <<>> /\ original_priority[t] < priority[Head(list)]
  THEN priority[Head(list)]
  ELSE original_priority[t]

\* A release that raises the semaphore and leaves the holder in place.
lock_release_keep_holder(t, l) ==
  LET kept == purge_donations(donations[t], l)
  IN  /\ donations' = [donations EXCEPT ![t] = kept]
      /\ priority' = [priority EXCEPT ![t] = recompute_priority(t, kept)]
      /\ sema_up(LockSema(l))
      /\ owners' = [owners EXCEPT ![l] = @ \ {t}]
      /\ last' = Event("lock_release", t, l, Woken(LockSema(l)))
      /\ UNCHANGED holder

\* lock_release from intr_disable on; the yields that may follow change
\* no data.
lock_release(t, l) ==
  LET kept == purge_donations(donations[t], l)
  IN  /\ holder' = [holder EXCEPT ![l] = NULL]
      /\ donations' = [donations EXCEPT ![t] = kept]
      /\ priority' = [priority EXCEPT ![t] = recompute_priority(t, kept)]
      /\ sema_up(LockSema(l))
      /\ owners' = [owners EXCEPT ![l] = @ \ {t}]
      /\ last' = Event("lock_release", t, l, Woken(LockSema(l)))

LockReleaseCall(t, l) ==
  /\ Runnable(t) /\ pc[t] = "idle"
  /\ l \in Locks
  /\ lock_held_by_current_thread(t, l)
  /\ lock_release(t, l)
  /\ UNCHANGED <<original_priority, waiting_lock, cond_waiters, pc, arg, max_elem,
                 init_value, downs, ups>>

LockRelease(t, l) == LockReleaseCall(t, l) /\ UNCHANGED calls

LockNext ==
  /\ \E t \in ThreadIds :
       \/ \E l \in LockIds : LockAcquire(t, l)
       \/ LockAcquireResume(t)
       \/ \E l \in LockIds : LockTryAcquire(t, l)
       \/ \E l \in LockIds : LockRelease(t, l)
  /\ UNCHANGED intr_vars

InitLock == InitWith(1..NThreads, 1..NLocks, {0})

SpecLock == InitLock /\ [][LockNext]_vars

\* ---- a workload with nested donation: one more thread and one more lock.
\* Thread 1 takes locks 1 and 3, thread 2 takes lock 1, thread 3 takes lock 2
\* and lock 1, thread 4 takes lock 2; each releases what it holds at will.
NestedUses(t, l) ==
  <<t, l>> \in {<<1, 1>>, <<1, 3>>, <<2, 1>>, <<3, 2>>, <<3, 1>>, <<4, 2>>}

NestedNext ==
  /\ \E t \in ThreadIds :
       \/ \E l \in LockIds : NestedUses(t, l) /\ LockAcquire(t, l)
       \/ LockAcquireResume(t)
       \/ \E l \in LockIds : LockRelease(t, l)
  /\ UNCHANGED intr_vars

InitNested == InitWith(ThreadIds, LockIds, {0})

SpecNested == InitNested /\ [][NestedNext]_vars

\* ---- a workload with donors on several locks of one holder: one more
\* thread.  Thread 1 takes the locks, one after the other; the other threads
\* ask for one lock each at a time.
HoldsNone(t) == \A l \in Locks : ~lock_held_by_current_thread(t, l)

PurgeNext ==
  /\ \E t \in ThreadIds :
       \/ \E l \in LockIds : (t = 1 \/ HoldsNone(t)) /\ LockAcquire(t, l)
       \/ LockAcquireResume(t)
       \/ \E l \in LockIds : LockRelease(t, l)
  /\ UNCHANGED intr_vars

\* The threads other than thread 1 make the same calls, so they are numbered
\* by base priority.
InitPurge ==
  /\ InitWith(ThreadIds, 1..NLocks, {0})
  /\ \A t \in Threads \ {1} : \A u \in Threads \ {1} :
       t <= u => original_priority[t] <= original_priority[u]

SpecPurge == InitPurge /\ [][PurgeNext]_vars

\* ASSERT belongs to lib/debug.h and follows the design text: a failed
\* assertion panics the kernel, after which no thread runs.

\* debug_panic, reached from a failed ASSERT in thread t's call on lock l.
debug_panic(t, l, op) ==
  /\ pc' = [pc EXCEPT ![t] = "panic"]
  /\ last' = Event(op, t, l, NULL)
  /\ UNCHANGED <<value, waiters, holder, priority, donations, waiting_lock, blocked,
                 arg, owners>>

Halted == \E t \in Threads : pc[t] = "panic"

\* A lock_acquire compiled without its assertions, entered by the holder.
lock_acquire_unasserted(t, l) == lock_acquire(t, l, TRUE, "la_wait", "lock_acquire")

\* lock_acquire entered by the holder: ASSERT (!lock_held_by_current_thread
\* (lock)) fails before intr_disable.
lock_acquire_held(t, l) == debug_panic(t, l, "lock_acquire_panic")

LockAcquireHeld(t, l) ==
  /\ Runnable(t) /\ pc[t] = "idle"
  /\ l \in Locks
  /\ lock_held_by_current_thread(t, l)
  /\ lock_acquire_held(t, l)
  /\ UNCHANGED <<original_priority, cond_waiters, max_elem, calls, init_value,
                 downs, ups>>

\* lock_try_acquire entered by the holder: the same assertion fails.
LockTryAcquireHeld(t, l) ==
  /\ Runnable(t) /\ pc[t] = "idle"
  /\ l \in Locks
  /\ lock_held_by_current_thread(t, l)
  /\ debug_panic(t, l, "lock_try_acquire_panic")
  /\ UNCHANGED <<original_priority, cond_waiters, max_elem, calls, init_value,
                 downs, ups>>

RecursiveNext ==
  \E t \in ThreadIds :
    /\ ~Halted
    /\ UNCHANGED intr_vars
    /\ \/ \E l \in LockIds : LockAcquire(t, l)
       \/ \E l \in LockIds : LockAcquireHeld(t, l)
       \/ LockAcquireResume(t)
       \/ \E l \in LockIds : LockTryAcquire(t, l)
       \/ \E l \in LockIds : LockTryAcquireHeld(t, l)
       \/ \E l \in LockIds : LockRelease(t, l)

SpecRecursive == InitLock /\ [][RecursiveNext]_vars

\* ---- the probes next to the blocking calls: every thread uses the
\* free-standing semaphore and one lock, with both kinds of call.
ProbeNext ==
  /\ \E t \in ThreadIds :
    \/ SemaDown(t)
    \/ SemaDownResume(t)
    \/ SemaTryDown(t)
    \/ SemaUp(t)
    \/ \E l \in LockIds : LockAcquire(t, l)
    \/ LockAcquireResume(t)
    \/ \E l \in LockIds : LockTryAcquire(t, l)
    \/ \E l \in LockIds : LockRelease(t, l)
  /\ UNCHANGED intr_vars

InitProbe == InitWith(1..NThreads, {l \in LockIds : \A m \in LockIds : l <= m}, 0..MaxInit)

SpecProbe == InitProbe /\ [][ProbeNext]_vars

\* ---- interrupt levels.  intr_disable and intr_set_level belong to
\* threads/interrupt.c and follow the design text; a thread that blocks with
\* interrupts off finds them off when thread_block returns.  Each operator
\* below follows one function's interrupt calls and yields the old_level
\* locals still live (stack), the level the step ends at (level), the levels
\* at which it changed data (at), the levels at which inner calls returned
\* (inner) and whether the function returned (done).
IntrLevels == {INTR_OFF, INTR_ON}

\* intr_disable: the level it leaves (it returns the level it found).
intr_disable(level) == INTR_OFF

\* intr_set_level: the level it leaves.
intr_set_level(level) == level

Front(stack) == SubSeq(stack, 1, Len(stack) - 1)

Last(stack) == stack[Len(stack)]

\* A sema_down that ends with intr_enable ().
sema_down_exit_enabled(old) == intr_set_level(INTR_ON)

\* sema_down's intr_set_level (old_level).
sema_down_exit_level(old) == intr_set_level(old)

\* sema_down entered (first) at `level` under the callers' locals `stack`, or
\* scheduled again after thread_block with its own old_level on top of stack.
sema_down_levels(s, stack, level, first) ==
  LET off == IF first THEN intr_disable(level) ELSE level
      st == IF first THEN Append(stack, level) ELSE stack
  IN  IF sema_is_zero(s)
      THEN [stack |-> st, level |-> off, at |-> {off}, inner |-> {}, done |-> FALSE]
      ELSE [stack |-> Front(st), level |-> sema_down_exit_level(Last(st)),
            at |-> {off}, inner |-> {}, done |-> TRUE]

sema_try_down_levels(s, stack, level) ==
  LET off == intr_disable(level)
  IN  [stack |-> stack, level |-> intr_set_level(level), at |-> {off}, inner |-> {},
       done |-> sema_is_positive(s)]

sema_up_levels(stack, level) ==
  LET off == intr_disable(level)
  IN  [stack |-> stack, level |-> intr_set_level(level), at |-> {off}, inner |-> {},
       done |-> TRUE]

lock_acquire_levels(l, stack, level, first) ==
  LET off == IF first THEN intr_disable(level) ELSE level
      st == IF first THEN Append(stack, level) ELSE stack
      marked == IF first /\ holder[l] # NULL THEN {off} ELSE {}
      d == sema_down_levels(LockSema(l), st, off, first)
  IN  IF d.done
      THEN [stack |-> Front(d.stack), level |-> intr_set_level(Last(d.stack)),
            at |-> marked \cup d.at \cup {d.level}, inner |-> {d.level}, done |-> TRUE]
      ELSE [stack |-> d.stack, level |-> d.level, at |-> marked \cup d.at,
            inner |-> {}, done |-> FALSE]

lock_try_acquire_levels(l, stack, level) ==
  LET off == intr_disable(level)
      d == sema_try_down_levels(LockSema(l), stack, off)
  IN  [stack |-> stack, level |-> intr_set_level(level),
       at |-> d.at \cup (IF d.done THEN {d.level} ELSE {}), inner |-> {d.level},
       done |-> d.done]

lock_release_levels(stack, level) ==
  LET off == intr_disable(level)
      u == sema_up_levels(stack, off)
  IN  [stack |-> stack, level |-> intr_set_level(level), at |-> {off} \cup u.at,
       inner |-> {u.level}, done |-> TRUE]

\* Thread t's step, of a call entered at level entry, had the levels r.
IntrRecord(t, entry, r) ==
  /\ entry_level' = [entry_level EXCEPT ![t] = entry]
  /\ old_level' = [old_level EXCEPT ![t] = r.stack]
  /\ intr_level' = [intr_level EXCEPT ![t] = r.level]
  /\ intr_seen' = [at |-> r.at, inner |-> r.inner]

\* The calls, made by callers that run with interrupts on or off.
IntrSemaDown(t) ==
  \E e \in IntrLevels :
    SemaDown(t) /\ IntrRecord(t, e, sema_down_levels(PlainSema, <<>>, e, TRUE))

IntrSemaDownResume(t) ==
  /\ SemaDownResume(t)
  /\ IntrRecord(t, entry_level[t],
                sema_down_levels(PlainSema, old_level[t], intr_level[t], FALSE))

IntrSemaTryDown(t) ==
  \E e \in IntrLevels :
    SemaTryDown(t) /\ IntrRecord(t, e, sema_try_down_levels(PlainSema, <<>>, e))

IntrSemaUp(t) ==
  \E e \in IntrLevels : SemaUp(t) /\ IntrRecord(t, e, sema_up_levels(<<>>, e))

IntrLockAcquire(t, l) ==
  \E e \in IntrLevels :
    LockAcquire(t, l) /\ IntrRecord(t, e, lock_acquire_levels(l, <<>>, e, TRUE))

IntrLockAcquireResume(t) ==
  /\ LockAcquireResume(t)
  /\ IntrRecord(t, entry_level[t],
                lock_acquire_levels(arg[t], old_level[t], intr_level[t], FALSE))

IntrLockTryAcquire(t, l) ==
  \E e \in IntrLevels :
    LockTryAcquire(t, l) /\ IntrRecord(t, e, lock_try_acquire_levels(l, <<>>, e))

IntrLockRelease(t, l) ==
  \E e \in IntrLevels :
    LockRelease(t, l) /\ IntrRecord(t, e, lock_release_levels(<<>>, e))

IntrNext ==
  \E t \in ThreadIds :
    \/ IntrSemaDown(t)
    \/ IntrSemaDownResume(t)
    \/ IntrSemaTryDown(t)
    \/ IntrSemaUp(t)
    \/ \E l \in LockIds : IntrLockAcquire(t, l)
    \/ IntrLockAcquireResume(t)
    \/ \E l \in LockIds : IntrLockTryAcquire(t, l)
    \/ \E l \in LockIds : IntrLockRelease(t, l)

\* The threads make the same calls, so they are numbered by base priority;
\* the free-standing semaphore starts at 0.
InitIntr ==
  /\ InitWith(1..NThreads, {l \in LockIds : \A m \in LockIds : l <= m}, {0})
  /\ \A t \in Threads : \A u \in Threads :
       t <= u => original_priority[t] <= original_priority[u]

SpecIntr == InitIntr /\ [][IntrNext]_vars

\* ---- condition variables (one condition, used with CondLock)

\* What list_entry (..., struct thread, elem)->priority can yield when the
\* element is the tail of an empty waiter list, which lies in no thread.
GarbagePriorities == {0, MaxPriority + 1}

\* The priority sem_less_priority_func reads through entry e: that of the
\* highest-priority waiter of e's semaphore, or g when nobody waits on it yet.
sem_priority(e, g) ==
  IF waiters[PrivSema(e)] = <<>> THEN g
  ELSE priority[highest_priority_waiter(waiters[PrivSema(e)])]

sem_less_priority_func(e1, e2, g) == sem_priority(e1, g[e1]) < sem_priority(e2, g[e2])

\* cond_wait up to list_push_back, done holding the lock with interrupts on.
cond_wait_enqueue(t) ==
  /\ value' = [value EXCEPT ![PrivSema(t)] = 0]
  /\ waiters' = [waiters EXCEPT ![PrivSema(t)] = <<>>]
  /\ cond_waiters' = Append(cond_waiters, t)
  /\ pc' = [pc EXCEPT ![t] = "cw_release"]
  /\ last' = Event("cond_wait_enqueue", t, CondLock, NULL)

CondWaitCall(t) ==
  /\ Runnable(t) /\ pc[t] = "idle"
  /\ Locks # {}
  /\ lock_held_by_current_thread(t, CondLock)
  /\ cond_wait_enqueue(t)
  /\ UNCHANGED <<holder, priority, original_priority, donations, waiting_lock,
                 blocked, arg, max_elem, init_value, downs, ups, owners>>

CondWait(t) == CondWaitCall(t) /\ UNCHANGED calls

\* A cond_wait that goes to sleep without giving the lock up.
cond_wait_keep_lock(t) ==
  /\ last' = Event("lock_release", t, CondLock, NULL)
  /\ UNCHANGED <<holder, donations, priority, waiters, blocked, value, owners>>

\* cond_wait's lock_release (lock).
cond_wait_release(t) == lock_release(t, CondLock)

CondWaitRelease(t) ==
  /\ Runnable(t) /\ pc[t] = "cw_release"
  /\ cond_wait_release(t)
  /\ pc' = [pc EXCEPT ![t] = "cw_down"]
  /\ UNCHANGED <<original_priority, waiting_lock, cond_waiters, arg, max_elem,
                 calls, init_value, downs, ups>>

\* cond_wait's sema_down on the private semaphore: on entry, and again from
\* the loop test when the thread has been woken.
CondWaitDown(t) ==
  /\ Runnable(t) /\ pc[t] \in {"cw_down", "cw_wait"}
  /\ sema_down(t, PrivSema(t), waiting_lock, "cw_wait", "cw_acquire")
  /\ last' = Event(IF sema_is_zero(PrivSema(t)) THEN "cond_wait_block"
                   ELSE "cond_wait_signalled", t, CondLock, NULL)
  /\ UNCHANGED <<holder, original_priority, donations, waiting_lock, cond_waiters,
                 arg, max_elem, calls, init_value, downs, ups, owners>>

\* cond_wait's lock_acquire (lock): on entry, and when woken inside it.
CondWaitAcquire(t) ==
  /\ Runnable(t) /\ pc[t] \in {"cw_acquire", "cw_la_wait"}
  /\ lock_acquire(t, CondLock, pc[t] = "cw_acquire", "cw_la_wait", "cond_wait")
  /\ UNCHANGED <<original_priority, cond_waiters, max_elem, calls, init_value,
                 downs, ups>>

\* cond_signal's body up to list_remove, for a non-empty cond->waiters: the
\* entry list_max picks under sem_less_priority_func leaves the list.
cond_signal_select(t, g, uppc) ==
  LET es == Range(cond_waiters)
      max == list_max(cond_waiters,
                      {p \in es \X es : sem_less_priority_func(p[1], p[2], g)})
  IN  /\ cond_waiters' = Remove(cond_waiters, max)
      /\ max_elem' = [max_elem EXCEPT ![t] = max]
      /\ pc' = [pc EXCEPT ![t] = uppc]
      /\ last' = Event("cond_signal_select", t, CondLock, max)

\* A cond_signal that removes the entry and forgets the sema_up.
cond_signal_skip_up(t, donepc) ==
  /\ max_elem' = [max_elem EXCEPT ![t] = NULL]
  /\ pc' = [pc EXCEPT ![t] = donepc]
  /\ last' = Event("cond_signal_up", t, CondLock, NULL)
  /\ UNCHANGED <<value, waiters, blocked>>

\* cond_signal's sema_up on the removed entry's semaphore.
cond_signal_up(t, donepc) ==
  /\ sema_up(PrivSema(max_elem[t]))
  /\ max_elem' = [max_elem EXCEPT ![t] = NULL]
  /\ pc' = [pc EXCEPT ![t] = donepc]
  /\ last' = Event("cond_signal_up", t, CondLock, Woken(PrivSema(max_elem[t])))

CondSignalCall(t) ==
  /\ Runnable(t) /\ pc[t] = "idle"
  /\ Locks # {}
  /\ lock_held_by_current_thread(t, CondLock)
  /\ IF cond_waiters = <<>>
     THEN /\ last' = Event("cond_signal_empty", t, CondLock, NULL)
          /\ UNCHANGED <<cond_waiters, max_elem, pc>>
     ELSE \E g \in [Range(cond_waiters) -> GarbagePriorities] :
            cond_signal_select(t, g, "cs_up")
  /\ UNCHANGED <<value, waiters, holder, priority, original_priority, donations,
                 waiting_lock, blocked, arg, init_value, downs, ups, owners>>

CondSignal(t) == CondSignalCall(t) /\ UNCHANGED calls

CondSignalUp(t) ==
  /\ Runnable(t) /\ pc[t] = "cs_up"
  /\ cond_signal_up(t, "idle")
  /\ UNCHANGED <<holder, priority, original_priority, donations, waiting_lock,
                 cond_waiters, arg, calls, init_value, downs, ups, owners>>

\* A broadcast that signals once instead of looping.
cond_broadcast_once(t) ==
  /\ IF cond_waiters = <<>> \/ pc[t] = "cb_loop"
     THEN /\ pc' = [pc EXCEPT ![t] = "idle"]
          /\ last' = Event("cond_broadcast", t, CondLock, NULL)
          /\ UNCHANGED <<cond_waiters, max_elem>>
     ELSE \E g \in [Range(cond_waiters) -> GarbagePriorities] :
            cond_signal_select(t, g, "cb_up")
  /\ UNCHANGED <<value, waiters, holder, priority, original_priority, donations,
                 waiting_lock, blocked, arg, init_value, downs, ups, owners>>

\* cond_broadcast's loop test, followed by cond_signal's selection if the
\* list is not empty.
cond_broadcast_loop(t) ==
  /\ IF cond_waiters = <<>>
     THEN /\ pc' = [pc EXCEPT ![t] = "idle"]
          /\ last' = Event("cond_broadcast", t, CondLock, NULL)
          /\ UNCHANGED <<cond_waiters, max_elem>>
     ELSE \E g \in [Range(cond_waiters) -> GarbagePriorities] :
            cond_signal_select(t, g, "cb_up")
  /\ UNCHANGED <<value, waiters, holder, priority, original_priority, donations,
                 waiting_lock, blocked, arg, init_value, downs, ups, owners>>

CondBroadcastCall(t) ==
  /\ Runnable(t) /\ pc[t] = "idle"
  /\ Locks # {}
  /\ lock_held_by_current_thread(t, CondLock)
  /\ cond_broadcast_loop(t)

CondBroadcast(t) == CondBroadcastCall(t) /\ UNCHANGED calls

CondBroadcastLoop(t) ==
  /\ Runnable(t) /\ pc[t] = "cb_loop"
  /\ cond_broadcast_loop(t)
  /\ UNCHANGED calls

CondBroadcastUp(t) ==
  /\ Runnable(t) /\ pc[t] = "cb_up"
  /\ cond_signal_up(t, "cb_loop")
  /\ UNCHANGED <<holder, priority, original_priority, donations, waiting_lock,
                 cond_waiters, arg, calls, init_value, downs, ups, owners>>

CondNext ==
  /\ \E t \in ThreadIds :
    \/ \E l \in LockIds : LockAcquire(t, l)
    \/ LockAcquireResume(t)
    \/ \E l \in LockIds : LockRelease(t, l)
    \/ CondWait(t)
    \/ CondWaitRelease(t)
    \/ CondWaitDown(t)
    \/ CondWaitAcquire(t)
    \/ CondSignal(t)
    \/ CondSignalUp(t)
    \/ CondBroadcast(t)
    \/ CondBroadcastLoop(t)
    \/ CondBroadcastUp(t)
  /\ UNCHANGED intr_vars

\* The monitor lock alone.
MonitorLocks == {l \in LockIds : \A m \in LockIds : l <= m}

InitCond == InitWith(1..NThreads, MonitorLocks, {0})

SpecCond == InitCond /\ [][CondNext]_vars

\* ---- scripted workloads.  calls[t] counts the calls thread t has started.

Step(t, k) ==
  /\ t \in Threads
  /\ calls[t] = k
  /\ calls' = [calls EXCEPT ![t] = k + 1]

\* -- broadcast: threads 1..NThreads each take the monitor lock, wait on the
\* condition and release the lock once cond_wait has returned; one more
\* thread, after all of them have called cond_wait, takes the lock,
\* broadcasts and releases the lock.
Waiters == 1..NThreads

Broadcaster == NThreads + 1

WaiterLock(t) == t \in Waiters /\ Step(t, 0) /\ LockAcquireCall(t, CondLock)

WaiterWait(t) == t \in Waiters /\ Step(t, 1) /\ CondWaitCall(t)

WaiterUnlock(t) == t \in Waiters /\ Step(t, 2) /\ LockReleaseCall(t, CondLock)

BroadcasterLock(t) ==
  /\ t = Broadcaster
  /\ \A w \in Waiters : calls[w] >= 2
  /\ Step(t, 0)
  /\ LockAcquireCall(t, CondLock)

BroadcasterBroadcast(t) == t = Broadcaster /\ Step(t, 1) /\ CondBroadcastCall(t)

BroadcasterUnlock(t) == t = Broadcaster /\ Step(t, 2) /\ LockReleaseCall(t, CondLock)

BroadcastStep(t) ==
  /\ \/ WaiterLock(t)
     \/ WaiterWait(t)
     \/ WaiterUnlock(t)
     \/ BroadcasterLock(t)
     \/ BroadcasterBroadcast(t)
     \/ BroadcasterUnlock(t)
     \/ LockAcquireResume(t)
     \/ CondWaitRelease(t)
     \/ CondWaitDown(t)
     \/ CondWaitAcquire(t)
     \/ CondBroadcastLoop(t)
     \/ CondBroadcastUp(t)
  /\ UNCHANGED intr_vars

BroadcastNext == \E t \in ThreadIds : BroadcastStep(t)

\* The waiters run the same script, so they are numbered by base priority.
InitBroadcast ==
  /\ InitWith(ThreadIds, MonitorLocks, {0})
  /\ \A t \in Waiters : \A u \in Waiters :
       t <= u => original_priority[t] <= original_priority[u]

\* Every thread that can run is eventually run.
SpecBroadcast ==
  InitBroadcast /\ [][BroadcastNext]_vars /\ \A t \in ThreadIds : WF_vars(BroadcastStep(t))

\* -- signal: all threads but the last each take the monitor lock, wait on
\* the condition and release the lock once cond_wait has returned; the last
\* thread takes the lock whenever it can, signals MaxOps times and releases
\* the lock.
Signaller == NThreads

SignalWaiters == 1..(NThreads - 1)

SignalWaiterLock(t) == t \in SignalWaiters /\ Step(t, 0) /\ LockAcquireCall(t, CondLock)

SignalWaiterWait(t) == t \in SignalWaiters /\ Step(t, 1) /\ CondWaitCall(t)

SignalWaiterUnlock(t) == t \in SignalWaiters /\ Step(t, 2) /\ LockReleaseCall(t, CondLock)

SignallerLock(t) == t = Signaller /\ Step(t, 0) /\ LockAcquireCall(t, CondLock)

SignallerSignal(t) ==
  /\ t = Signaller
  /\ \E k \in 1..MaxOps : Step(t, k)
  /\ CondSignalCall(t)

SignallerUnlock(t) == t = Signaller /\ Step(t, MaxOps + 1) /\ LockReleaseCall(t, CondLock)

SignalStep(t) ==
  /\ \/ SignalWaiterLock(t)
     \/ SignalWaiterWait(t)
     \/ SignalWaiterUnlock(t)
     \/ SignallerLock(t)
     \/ SignallerSignal(t)
     \/ SignallerUnlock(t)
     \/ LockAcquireResume(t)
     \/ CondWaitRelease(t)
     \/ CondWaitDown(t)
     \/ CondWaitAcquire(t)
     \/ CondSignalUp(t)
  /\ UNCHANGED intr_vars

SignalNext == \E t \in ThreadIds : SignalStep(t)

\* Every thread that can run is eventually run.
InitSignal == InitWith(1..NThreads, MonitorLocks, {0})

SpecSignal ==
  InitSignal /\ [][SignalNext]_vars /\ \A t \in ThreadIds : WF_vars(SignalStep(t))

\* -- hand-off: thread A takes the lock; thread B, of higher base priority,
\* then asks for it and blocks; A then releases it.  The other threads use
\* the free-standing semaphore meanwhile.
ThreadA == CHOOSE t \in Waiters : \A u \in Waiters : t <= u

ThreadB == ThreadA + 1

HandoffLockA(t) == t = ThreadA /\ Step(t, 0) /\ LockAcquireCall(t, CondLock)

HandoffLockB(t) ==
  /\ t = ThreadB
  /\ lock_held_by_current_thread(ThreadA, CondLock)
  /\ Step(t, 0)
  /\ LockAcquireCall(t, CondLock)

HandoffUnlockA(t) ==
  /\ t = ThreadA
  /\ pc[ThreadB] = "la_wait"
  /\ Step(t, 1)
  /\ LockReleaseCall(t, CondLock)

HandoffStep(t) ==
  /\ \/ HandoffLockA(t)
     \/ HandoffLockB(t)
     \/ HandoffUnlockA(t)
     \/ LockAcquireResume(t)
  /\ UNCHANGED intr_vars

HandoffOther(t) ==
  /\ t \notin {ThreadA, ThreadB}
  /\ UNCHANGED intr_vars
  /\ \/ SemaDown(t)
     \/ SemaDownResume(t)
     \/ SemaTryDown(t)
     \/ SemaUp(t)

HandoffNext == \E t \in ThreadIds : HandoffStep(t) \/ HandoffOther(t)

InitHandoff ==
  /\ InitWith(1..NThreads, MonitorLocks, 0..MaxInit)
  /\ original_priority[ThreadA] < original_priority[ThreadB]

SpecHandoff ==
  InitHandoff /\ [][HandoffNext]_vars /\ \A t \in ThreadIds : WF_vars(HandoffStep(t))

\* -- wake-up: the semaphore starts at 0; thread A calls sema_down once and
\* one other thread calls sema_up once; nobody else touches the semaphore.
WakeDown(t) == t = ThreadA /\ Step(t, 0) /\ SemaDownCall(t)

WakeUp(t) == t # ThreadA /\ ups = 0 /\ Step(t, 0) /\ SemaUpCall(t)

WakeStep(t) ==
  /\ \/ WakeDown(t)
     \/ WakeUp(t)
     \/ SemaDownResume(t)
  /\ UNCHANGED intr_vars

WakeNext == \E t \in ThreadIds : WakeStep(t)

InitWake == InitWith(1..NThreads, {}, {0})

SpecWake ==
  InitWake /\ [][WakeNext]_vars
  /\ WF_vars(\E t \in ThreadIds : WakeUp(t) /\ UNCHANGED intr_vars)
  /\ \A t \in ThreadIds :
       WF_vars((WakeDown(t) \/ SemaDownResume(t)) /\ UNCHANGED intr_vars)

\* ------------------------------------------------------------------------
\* Properties

\* C1: mutual exclusion.  For every lock at most one thread has returned
\* from an acquire it has not yet matched by a release; holder, when not
\* NULL, is exactly that thread; and lock_held_by_current_thread is true
\* only for it.
MutualExclusion ==
  \A l \in Locks :
    /\ Cardinality(owners[l]) <= 1
    /\ holder[l] # NULL => owners[l] = {holder[l]}
    /\ \A t \in Threads : lock_held_by_current_thread(t, l) => owners[l] = {t}

\* A lock is held, a second thread is blocked in lock_acquire on it, and a
\* third has just had lock_try_acquire on it refused.
MutualExclusionWitness ==
  \E l \in Locks :
    /\ holder[l] # NULL
    /\ waiters[LockSema(l)] # <<>>
    /\ last.op = "lock_try_acquire_false" /\ last.obj = l
    /\ last.th # holder[l]

\* C2: the free-standing semaphore's value is never negative, and the
\* successful decrements completed so far never exceed the sema_up calls
\* completed so far plus the initial value.
SemaCounting ==
  /\ value[PlainSema] >= 0
  /\ downs <= ups + init_value

\* Every unit has been taken (two of them by sema_up) while a thread is
\* still blocked in sema_down.
SemaCountingWitness ==
  /\ ups = MaxOps
  /\ downs = ups + init_value
  /\ value[PlainSema] = 0
  /\ \E t \in Threads : pc[t] = "sd_wait" /\ blocked[t]

\* C3: donation correctness.  Whenever a thread is blocked in lock_acquire
\* on a lock that has a holder, the holder's effective priority is at least
\* the blocked thread's, in every state until the holder releases that lock.
DonationCorrectness ==
  \A w \in Threads : \A l \in Locks :
    (pc[w] = "la_wait" /\ blocked[w] /\ arg[w] = l /\ holder[l] # NULL)
      => priority[holder[l]] >= priority[w]

MaxOver(S) == CHOOSE m \in S : \A n \in S : m >= n

\* C4: donation reversal.  In the state lock_release leaves, the releasing
\* thread's effective priority is its base priority if it has no remaining
\* donor or none above its base priority, and otherwise the maximum
\* priority over its remaining donors.
DonationReversal ==
  last.op = "lock_release" =>
    LET t == last.th
        remaining == {priority[d] : d \in Range(donations[t])}
    IN  priority[t] =
          IF remaining = {} \/ MaxOver(remaining \cup {original_priority[t]}) = original_priority[t]
          THEN original_priority[t]
          ELSE MaxOver(remaining)

\* C5: highest-priority-first wake.  Every step that increments a
\* semaphore's value increments it by exactly one; if the waiter list was
\* non-empty it removes exactly one thread from it and unblocks that thread
\* only, and that thread's effective priority at that moment is at least
\* that of every thread in the list, whatever the order they queued in.
HighestPriorityFirstWake ==
  [][\A s \in Semas :
       value'[s] > value[s] =>
         /\ value'[s] = value[s] + 1
         /\ IF waiters[s] = <<>>
            THEN waiters'[s] = <<>> /\ blocked' = blocked
            ELSE \E w \in Range(waiters[s]) :
                   /\ waiters'[s] = Remove(waiters[s], w)
                   /\ Len(waiters'[s]) = Len(waiters[s]) - 1
                   /\ blocked[w] /\ ~blocked'[w]
                   /\ \A u \in Threads \ {w} : blocked'[u] = blocked[u]
                   /\ \A u \in Range(waiters[s]) : priority[w] >= priority[u]]_vars

\* lock_release has woken a waiter whose effective priority, raised by a
\* donation, is above that of a waiter left behind whose base priority is
\* the higher of the two.
HighestPriorityFirstWakeWitness ==
  /\ last.op = "lock_release" /\ last.woke # NULL
  /\ \E u \in Range(waiters[LockSema(last.obj)]) :
       /\ priority[last.woke] > priority[u]
       /\ original_priority[last.woke] < original_priority[u]

\* C6: when cond_signal has picked an entry out of a non-empty
\* cond->waiters, the thread that entry belongs to has an effective priority
\* at least that of every thread still waiting on the condition, whether or
\* not those threads have reached their private semaphore yet.
CondSignalHighest ==
  last.op = "cond_signal_select" =>
    \A u \in Range(cond_waiters) : priority[last.woke] >= priority[u]

\* C7: cond_wait queues the private semaphore while the caller holds the
\* lock, the caller does not own the lock from lock_release on while it is at
\* or blocked on the private semaphore, and it owns the lock in the state in
\* which cond_wait returns.
CondWaitLockDiscipline ==
  /\ \A t \in Threads :
       /\ pc[t] = "cw_release" =>
            /\ lock_held_by_current_thread(t, CondLock)
            /\ t \in Range(cond_waiters)
       /\ pc[t] \in {"cw_down", "cw_wait"} =>
            /\ ~lock_held_by_current_thread(t, CondLock)
            /\ t \notin owners[CondLock]
  /\ last.op = "cond_wait_enqueue" => lock_held_by_current_thread(last.th, CondLock)
  /\ last.op = "cond_wait_block" =>
       /\ blocked[last.th]
       /\ ~lock_held_by_current_thread(last.th, CondLock)
  /\ last.op = "cond_wait" =>
       /\ pc[last.th] = "idle"
       /\ lock_held_by_current_thread(last.th, CondLock)
       /\ owners[CondLock] = {last.th}

\* A cond_wait has just returned, after its caller had to queue for the
\* lock, while another thread is blocked on its own private semaphore.
CondWaitLockDisciplineWitness ==
  /\ last.op = "cond_wait"
  /\ \E u \in Threads \ {last.th} :
       pc[u] = "cw_wait" /\ blocked[u] /\ u \in Range(cond_waiters)

\* C8: in the broadcast workload, under fair scheduling, every waiting thread
\* eventually returns from cond_wait owning the lock, and at no time do two
\* threads own the lock.
BroadcastWakesAll ==
  /\ <>(\A w \in Waiters : calls[w] >= 2 /\ pc[w] = "idle")
  /\ [](last.op = "cond_wait" => lock_held_by_current_thread(last.th, CondLock))
  /\ [](Cardinality(owners[CondLock]) <= 1)

\* The broadcast found all the waiters queued, and the last of them has
\* returned from cond_wait holding the lock after the others released it.
BroadcastWakesAllWitness ==
  /\ last.op = "cond_wait"
  /\ lock_held_by_current_thread(last.th, CondLock)
  /\ calls[Broadcaster] = 3
  /\ \A w \in Waiters \ {last.th} : calls[w] = 3

\* C9: in the hand-off workload, while A holds the lock and B is blocked on
\* it A's effective priority is at least B's; the state A's lock_release
\* leaves has A at its base priority; and once A has called lock_release, B
\* eventually owns the lock, returned from lock_acquire, with waiting_lock
\* cleared.
LockHandoff ==
  /\ []((lock_held_by_current_thread(ThreadA, CondLock)
          /\ pc[ThreadB] = "la_wait" /\ blocked[ThreadB])
        => priority[ThreadA] >= priority[ThreadB])
  /\ []((last.op = "lock_release" /\ last.th = ThreadA)
        => priority[ThreadA] = original_priority[ThreadA])
  /\ (calls[ThreadA] = 2) ~>
       (/\ lock_held_by_current_thread(ThreadB, CondLock)
        /\ pc[ThreadB] = "idle"
        /\ waiting_lock[ThreadB] = NULL)

\* A, raised by B's donation while it held the lock, has released it and B
\* owns it.
LockHandoffWitness ==
  /\ calls[ThreadA] = 2
  /\ lock_held_by_current_thread(ThreadB, CondLock)
  /\ pc[ThreadB] = "idle"
  /\ waiting_lock[ThreadB] = NULL
  /\ priority[ThreadA] = original_priority[ThreadA]
  /\ priority[ThreadA] < priority[ThreadB]

\* C10: in the wake-up workload, A's sema_down does not return before a
\* sema_up, and once the one sema_up has been performed A's sema_down
\* eventually returns and the value ends at 0, for good.
SemaWakeUp ==
  /\ []((calls[ThreadA] = 1 /\ pc[ThreadA] = "idle") => ups >= 1)
  /\ [](blocked[ThreadA] => ups = 0)
  /\ (ups = 1) ~> [](/\ calls[ThreadA] = 1 /\ pc[ThreadA] = "idle"
                     /\ ~blocked[ThreadA]
                     /\ downs = 1
                     /\ value[PlainSema] = 0)

\* A blocked in sema_down, was woken by the sema_up, and has returned.
SemaWakeUpWitness ==
  /\ last.op = "sema_down" /\ last.th = ThreadA
  /\ ups = 1 /\ downs = 1
  /\ value[PlainSema] = 0
  /\ waiters[PlainSema] = <<>>

\* C11: every lock_acquire or lock_try_acquire step taken on a lock by the
\* thread that holds it ends in the panic state and changes neither the
\* holder, the semaphore's value or waiters, any donations list nor any
\* waiting_lock; no such step returns with the lock acquired.
RecursiveAcquireFatal ==
  [][\A t \in Threads : \A l \in Locks :
       (/\ lock_held_by_current_thread(t, l)
        /\ last'.th = t /\ last'.obj = l
        /\ last'.op \in {"lock_acquire", "lock_acquire_block", "lock_acquire_panic",
                         "lock_try_acquire_true", "lock_try_acquire_false",
                         "lock_try_acquire_panic"})
       => /\ last'.op \in {"lock_acquire_panic", "lock_try_acquire_panic"}
          /\ pc'[t] = "panic"
          /\ UNCHANGED <<holder, value, waiters, donations, waiting_lock, priority,
                         blocked, owners>>]_vars

\* The holder of a lock that another thread is blocked on, and has donated
\* for, has called lock_acquire on it again.
RecursiveAcquireFatalWitness ==
  /\ last.op = "lock_acquire_panic"
  /\ pc[last.th] = "panic"
  /\ lock_held_by_current_thread(last.th, last.obj)
  /\ waiters[LockSema(last.obj)] # <<>>
  /\ donations[last.th] # <<>>

\* C12: a sema_try_down or lock_try_acquire step never blocks its caller or
\* moves it off its call site and never touches a waiter list; on a
\* semaphore at 0 it answers false and leaves every value, every holder and
\* every waiting_lock as they were; on a positive semaphore it answers true
\* and lowers that semaphore, and no other, by exactly one, and
\* lock_try_acquire then makes the caller the holder with waiting_lock NULL.
NonBlockingProbes ==
  [][/\ last'.op \in {"sema_try_down_true", "sema_try_down_false"} =>
          /\ blocked' = blocked /\ pc' = pc /\ waiters' = waiters
          /\ holder' = holder /\ waiting_lock' = waiting_lock
          /\ IF value[PlainSema] = 0
             THEN last'.op = "sema_try_down_false" /\ value' = value
             ELSE /\ last'.op = "sema_try_down_true"
                  /\ value' = [value EXCEPT ![PlainSema] = value[PlainSema] - 1]
     /\ last'.op \in {"lock_try_acquire_true", "lock_try_acquire_false"} =>
          LET t == last'.th
              l == last'.obj
          IN  /\ blocked' = blocked /\ pc' = pc /\ waiters' = waiters
              /\ IF value[LockSema(l)] = 0
                 THEN /\ last'.op = "lock_try_acquire_false"
                      /\ value' = value
                      /\ holder' = holder /\ holder[l] \notin {NULL, t}
                      /\ waiting_lock' = waiting_lock
                 ELSE /\ last'.op = "lock_try_acquire_true"
                      /\ value' = [value EXCEPT ![LockSema(l)] = value[LockSema(l)] - 1]
                      /\ holder' = [holder EXCEPT ![l] = t]
                      /\ waiting_lock'[t] = NULL]_vars

\* lock_try_acquire has just been refused on a lock that has a holder and a
\* queue, while the free-standing semaphore is at 0 with a thread queued.
NonBlockingProbesWitness ==
  /\ last.op = "lock_try_acquire_false"
  /\ ~blocked[last.th] /\ pc[last.th] = "idle"
  /\ waiters[LockSema(last.obj)] # <<>>
  /\ value[PlainSema] = 0 /\ waiters[PlainSema] # <<>>

\* C13: every step leaves each thread that is not inside a call at the
\* interrupt level its latest call was entered at, with no old_level local
\* left over; every inner sema_down, sema_try_down or sema_up called from a
\* lock function returns with interrupts off; and every step that changes a
\* semaphore's value or waiters, a holder, a donations list or a
\* waiting_lock made each of its changes with interrupts off.
AtomicSectionNesting ==
  [][/\ \A t \in Threads :
          pc'[t] = "idle" => intr_level'[t] = entry_level'[t] /\ old_level'[t] = <<>>
     /\ intr_seen'.inner \subseteq {INTR_OFF}
     /\ <<value, waiters, holder, donations, waiting_lock>>'
          # <<value, waiters, holder, donations, waiting_lock>>
        => intr_seen'.at = {INTR_OFF}]_vars

\* A lock_acquire entered with interrupts off has returned, its inner
\* sema_down having come back with them off, while another thread sleeps in
\* lock_acquire with both its old_level locals live.
AtomicSectionNestingWitness ==
  /\ last.op = "lock_acquire"
  /\ entry_level[last.th] = INTR_OFF /\ intr_level[last.th] = INTR_OFF
  /\ intr_seen.inner = {INTR_OFF}
  /\ \E u \in Threads :
       blocked[u] /\ pc[u] = "la_wait" /\ old_level[u] = <<INTR_ON, INTR_OFF>>

\* C14: donor-set ordering.  In every state the front element of a
\* non-empty donations list has an effective priority at least that of
\* every element of the list.
DonorSetOrdering ==
  \A t \in Threads :
    donations[t] # <<>> =>
      \A d \in Range(donations[t]) : priority[Head(donations[t])] >= priority[d]

\* Every element of a donations list is waiting for a lock the list's
\* thread holds.
DonorsWaitOnHeldLock ==
  \A t \in Threads : \A d \in Range(donations[t]) :
    waiting_lock[d] # NULL /\ holder[waiting_lock[d]] = t

\* C15: donor-set membership.  In every state every element of a thread's
\* donations list is waiting for a lock that thread holds, and every thread
\* blocked in lock_acquire on a lock that has a holder is in the holder's
\* donations list.
DonorSetMembership ==
  /\ DonorsWaitOnHeldLock
  /\ \A w \in Threads : \A l \in Locks :
       (blocked[w] /\ pc[w] = "la_wait" /\ waiting_lock[w] = l /\ holder[l] # NULL)
         => w \in Range(donations[holder[l]])

\* C16: selective purge.  A lock_release step on lock l by thread t leaves
\* in t's donations list exactly the elements whose waiting_lock was not l,
\* in the order they had, and leaves every other donations list alone.
SelectivePurge ==
  [][last'.op = "lock_release" =>
       LET t == last'.th
           l == last'.obj
           old == donations[t]
           new == donations'[t]
       IN  /\ Range(new) = {d \in Range(old) : waiting_lock[d] # l}
           /\ \A i \in 1..Len(new) : \A j \in 1..Len(new) :
                i < j => \E a \in 1..Len(old) : \E b \in 1..Len(old) :
                           a < b /\ old[a] = new[i] /\ old[b] = new[j]
           /\ \A u \in Threads \ {t} : donations'[u] = donations[u]]_vars

\* A thread holding two locks has released one of them and woken a waiter
\* of it, and two donors, both waiting on the lock still held, have stayed
\* in its donations list.
SelectivePurgeWitness ==
  /\ last.op = "lock_release" /\ last.woke # NULL
  /\ Len(donations[last.th]) >= 2
  /\ \A d \in Range(donations[last.th]) :
       waiting_lock[d] # NULL /\ waiting_lock[d] # last.obj
          /\ holder[waiting_lock[d]] = last.th

\* C17: a sema_up made from an interrupt handler raises the value by one,
\* unblocks at most one thread, a waiter, leaves the interrupted thread
\* unblocked where it was, and does not call thread_yield.
SemaUpFromInterrupt ==
  [][last'.op \in {"sema_up_intr", "sema_up_intr_yield"} =>
       /\ value' = [value EXCEPT ![PlainSema] = value[PlainSema] + 1]
       /\ Cardinality({u \in Threads : blocked[u] /\ ~blocked'[u]}) <= 1
       /\ \A u \in Threads : blocked[u] /\ ~blocked'[u] => u \in Range(waiters[PlainSema])
       /\ \A u \in Threads : blocked'[u] => blocked[u]
       /\ pc' = pc
       /\ last'.op # "sema_up_intr_yield"]_vars

\* C18: when cond_signal has picked an entry out of two or more, every
\* entry it compared -- the one it removed and the ones it left -- has
\* exactly one thread on its private semaphore's waiter list.
SignalComparatorPrecondition ==
  (last.op = "cond_signal_select" /\ cond_waiters # <<>>) =>
    \A e \in Range(cond_waiters) \cup {last.woke} : Len(waiters[PrivSema(e)]) = 1

\* C19: no lost wake-up.  An entry is in cond->waiters only while its
\* thread is inside cond_wait and has not got past the sema_down on its
\* private semaphore; and, in the signal workload under fair scheduling,
\* a thread inside cond_wait whose entry has left cond->waiters, whether it
\* had blocked already or not, eventually gets past that sema_down.
NoLostWakeUp ==
  /\ [](\A t \in Range(cond_waiters) : pc[t] \in {"cw_release", "cw_down", "cw_wait"})
  /\ \A t \in SignalWaiters :
       (pc[t] \in {"cw_down", "cw_wait"} /\ t \notin Range(cond_waiters))
         ~> (pc[t] \in {"cw_acquire", "cw_la_wait", "idle"})

\* cond_signal has removed and raised the private semaphore of a thread
\* that released the lock in cond_wait and has not yet reached sema_down.
NoLostWakeUpWitness ==
  \E t \in SignalWaiters :
    /\ pc[t] = "cw_down" /\ ~blocked[t]
    /\ t \notin Range(cond_waiters)
    /\ value[PrivSema(t)] > 0
    /\ last.op = "cond_signal_up"

\* C20: lock/semaphore consistency.  In every state each lock's semaphore
\* has value 0 or 1, the value is 0 exactly when the lock has a holder, every
\* thread on that semaphore's waiter list has waiting_lock equal to the
\* lock, and the holder's waiting_lock is not the lock.
LockSemaConsistency ==
  \A l \in Locks :
    /\ value[LockSema(l)] \in {0, 1}
    /\ value[LockSema(l)] = 0 <=> holder[l] # NULL
    /\ \A w \in Range(waiters[LockSema(l)]) : waiting_lock[w] = l
    /\ \A t \in Threads : lock_held_by_current_thread(t, l) => waiting_lock[t] # l

\* A lock has just been released with two threads queued on it: it is free,
\* one of them has been woken and not run yet, the other is still queued,
\* and the releasing thread still holds the other lock.
LockSemaConsistencyWitness ==
  /\ last.op = "lock_release" /\ last.woke # NULL
  /\ holder[last.obj] = NULL /\ value[LockSema(last.obj)] = 1
  /\ waiters[LockSema(last.obj)] # <<>>
  /\ \E m \in Locks : holder[m] = last.th

====
